---- MODULE Spec2Model ----
(***************************************************************************)
(* A model of the Obsidian vault interface: the frontmatter splitter       *)
(* (NoteReference::parts), the extraction strategies, find_by and          *)
(* JoinedNote::write, over a small file system.                            *)
(*                                                                         *)
(* Text is a sequence of one-character strings.  A path is a sequence of   *)
(* components; a component is text.  The empty sequence is the empty path  *)
(* (the working directory when used as a directory).                       *)
(***************************************************************************)
EXTENDS Naturals, Sequences, FiniteSets, TLC

VARIABLES fs,      \* the file system: [files: path -> text, dirs: set of paths]
          pre,     \* the file system before the last call
          call,    \* the last call and its arguments
          ret      \* what the last call returned

vars == <<fs, pre, call, ret>>

----------------------------------------------------------------------------
(* Text helpers *)

NL == "\n"
CR == "\r"

\* The metadata delimiter line "---".
Delim == <<"-", "-", "-">>

\* F applied to the value of v, which is evaluated once.
Let(v, F(_)) == CHOOSE r \in {F(x) : x \in {v}} : TRUE

RECURSIVE Flatten(_)
\* The concatenation of a sequence of texts.
Flatten(ss) == IF ss = <<>> THEN <<>> ELSE Head(ss) \o Flatten(Tail(ss))

RECURSIVE Join(_, _)
\* Itertools::join: the elements separated by sep.
Join(ls, sep) ==
  IF ls = <<>> THEN <<>>
  ELSE IF Len(ls) = 1 THEN ls[1]
  ELSE ls[1] \o sep \o Join(Tail(ls), sep)

\* The index of the first element of s that is in set cs, or 0.
FirstIn(s, cs) ==
  IF \E i \in 1..Len(s) : s[i] \in cs
  THEN CHOOSE i \in 1..Len(s) : s[i] \in cs /\ \A j \in 1..(i - 1) : s[j] \notin cs
  ELSE 0

RECURSIVE SplitInclusive(_)
\* str::split_inclusive('\n'): pieces that keep their terminating newline;
\* a last piece without one only when it is not empty.
SplitInclusive(s) ==
  IF s = <<>> THEN <<>>
  ELSE Let(FirstIn(s, {NL}), LAMBDA i :
         IF i = 0 THEN <<s>>
         ELSE <<SubSeq(s, 1, i)>> \o SplitInclusive(SubSeq(s, i + 1, Len(s))))

\* One line of str::lines: the newline stripped, then a carriage return
\* before it; a piece without a newline is kept as it is.
StripLine(l) ==
  IF l # <<>> /\ l[Len(l)] = NL
  THEN Let(SubSeq(l, 1, Len(l) - 1), LAMBDA m :
         IF m # <<>> /\ m[Len(m)] = CR THEN SubSeq(m, 1, Len(m) - 1) ELSE m)
  ELSE l

\* str::lines.
Lines(s) == Let(SplitInclusive(s), LAMBDA ps : [i \in 1..Len(ps) |-> StripLine(ps[i])])

----------------------------------------------------------------------------
(* Option and Result values *)

None == [some |-> FALSE]
Some(x) == [some |-> TRUE, val |-> x]

----------------------------------------------------------------------------
(* The structured codec (serde_yaml), for the fragment of YAML the vault   *)
(* uses: a block mapping of one-character plain keys to one-character      *)
(* scalars.  A digit is a number, a letter a string, a quoted digit a      *)
(* string.  A Mapping is the sequence of its entries in insertion order.   *)

Digits == {"7", "8"}
Letters == {"i", "t", "p", "q", "x"}
Quote == "'"

Num(n) == [kind |-> "num", num |-> n, str |-> ""]
Str(s) == [kind |-> "str", num |-> 0, str |-> s]

DigitVal(c) == IF c = "7" THEN 7 ELSE 8
DigitOf(n) == IF n = 7 THEN "7" ELSE "8"

RECURSIVE SplitBreaks(_)
\* The lines of a YAML stream: both newline and carriage return are breaks.
SplitBreaks(s) ==
  Let(FirstIn(s, {NL, CR}), LAMBDA i :
    IF i = 0 THEN <<s>>
    ELSE <<SubSeq(s, 1, i - 1)>> \o SplitBreaks(SubSeq(s, i + 1, Len(s))))

\* A scalar of the fragment, or None.
ParseScalar(t) ==
  IF Len(t) = 1 /\ t[1] \in Digits THEN Some(Num(DigitVal(t[1])))
  ELSE IF Len(t) = 1 /\ t[1] \in Letters THEN Some(Str(t[1]))
  ELSE IF Len(t) = 3 /\ t[1] = Quote /\ t[3] = Quote /\ t[2] \in Digits
       THEN Some(Str(t[2]))
  ELSE None

\* One "k: v" line as an entry, or None.
ParseEntry(l) ==
  IF Len(l) >= 4 /\ l[1] \in Letters /\ l[2] = ":" /\ l[3] = " "
  THEN Let(ParseScalar(SubSeq(l, 4, Len(l))), LAMBDA v :
         IF v.some THEN Some([key |-> l[1], value |-> v.val]) ELSE None)
  ELSE None

\* serde_yaml::from_str::<Mapping>: the empty document and "{}" are the
\* empty mapping; otherwise every non-blank line is an entry and no key
\* repeats; anything else is rejected.
from_str(block) ==
  Let(SelectSeq(SplitBreaks(block), LAMBDA l : l # <<>>), LAMBDA ls :
    IF ls = <<>> \/ ls = << <<"{", "}">> >> THEN [ok |-> TRUE, val |-> <<>>]
    ELSE Let([i \in 1..Len(ls) |-> ParseEntry(ls[i])], LAMBDA es :
           IF /\ \A i \in 1..Len(es) : es[i].some
              /\ \A i, j \in 1..Len(es) : es[i].val.key = es[j].val.key => i = j
           THEN [ok |-> TRUE, val |-> [i \in 1..Len(es) |-> es[i].val]]
           ELSE [ok |-> FALSE, val |-> <<>>]))

\* A scalar as serde_yaml writes it: a string that reads as a number is quoted.
ShowScalar(v) ==
  IF v.kind = "num" THEN <<DigitOf(v.num)>>
  ELSE IF v.str \in Digits THEN <<Quote, v.str, Quote>>
  ELSE <<v.str>>

\* serde_yaml::to_string of a Mapping: one "k: v" line per entry, each
\* newline-terminated; the empty mapping is "{}".
to_string(m) ==
  IF m = <<>> THEN <<"{", "}", NL>>
  ELSE Flatten([i \in 1..Len(m) |-> <<m[i].key, ":", " ">> \o ShowScalar(m[i].value) \o <<NL>>])

\* Mapping::get: the value of the first entry with this key, or None.
Get(m, k) ==
  IF \E i \in 1..Len(m) : m[i].key = k
  THEN Some(m[CHOOSE i \in 1..Len(m) : m[i].key = k].value)
  ELSE None

\* serde_yaml::from_value::<K> for an integer key type K.
from_value(v) == IF v.kind = "num" THEN Some(v.num) ELSE None

\* Value::as_str.
as_str(v) == IF v.kind = "str" THEN Some(v.str) ELSE None

----------------------------------------------------------------------------
(* Paths and the file system *)

\* Path::parent: None for the empty path, otherwise the path without its
\* last component (the empty path for a bare file name).
Parent(p) == IF p = <<>> THEN None ELSE Some(SubSeq(p, 1, Len(p) - 1))

\* Path::file_name of an entry.
FileName(p) == IF p = <<>> THEN <<>> ELSE p[Len(p)]

\* The proper, non-empty prefixes of p together with p itself.
Prefixes(p) == {SubSeq(p, 1, n) : n \in 1..Len(p)}

\* std::fs::read_to_string.
read_to_string(f, p) ==
  IF p \in DOMAIN f.files THEN [ok |-> TRUE, val |-> f.files[p]]
  ELSE [ok |-> FALSE, val |-> <<>>]

\* std::fs::create_dir_all: every missing directory on the way is made; it
\* fails when a component on the way is a regular file.  The empty path
\* succeeds and makes nothing.
create_dir_all(f, p) ==
  IF \E q \in Prefixes(p) : q \in DOMAIN f.files
  THEN [ok |-> FALSE, fs |-> f]
  ELSE [ok |-> TRUE, fs |-> [f EXCEPT !.dirs = @ \cup Prefixes(p)]]

\* std::fs::write that appends to what the file holds.
fs_write_Append(f, p, data) ==
  IF p = <<>> \/ p \in f.dirs \/ (Len(p) > 1 /\ Parent(p).val \notin f.dirs)
  THEN [ok |-> FALSE, fs |-> f]
  ELSE [ok |-> TRUE,
        fs |-> [f EXCEPT !.files = [q \in DOMAIN f.files \cup {p} |->
                  IF q # p THEN f.files[q]
                  ELSE IF p \in DOMAIN f.files THEN f.files[p] \o data ELSE data]]]

\* std::fs::write: create or truncate, then write all of data.  It fails on
\* the empty path, on a directory, and when the parent is not a directory.
fs_write(f, p, data) ==
  IF p = <<>> \/ p \in f.dirs \/ (Len(p) > 1 /\ Parent(p).val \notin f.dirs)
  THEN [ok |-> FALSE, fs |-> f]
  ELSE [ok |-> TRUE,
        fs |-> [f EXCEPT !.files = [q \in DOMAIN f.files \cup {p} |->
                                      IF q = p THEN data ELSE f.files[q]]]]

----------------------------------------------------------------------------
(* NoteReference *)

PartsErr(k, c) == [kind |-> k, meta |-> None, body |-> <<>>, codec |-> c]
PartsOk(m, b, c) == [kind |-> "Ok", meta |-> m, body |-> b, codec |-> c]

\* Itertools::take_while_ref(|line| *line != "---"): how many leading lines
\* are taken.
TakeWhileNotDelim(ls) ==
  Let(FirstIn(ls, {Delim}), LAMBDA i : IF i = 0 THEN Len(ls) ELSE i - 1)

\* parts_of with the closing delimiter checked before the block is parsed.
parts_of_CloseFirst(content) ==
  Let(Lines(content), LAMBDA lines :
    IF lines = <<>> THEN PartsOk(None, <<>>, FALSE)
    ELSE IF lines[1] # Delim THEN PartsOk(None, content, FALSE)
    ELSE Let(Tail(lines), LAMBDA rest :
         Let(TakeWhileNotDelim(rest), LAMBDA n :
         Let(from_str(Join(SubSeq(rest, 1, n), <<NL>>)), LAMBDA metadata :
           IF n = Len(rest) THEN PartsErr("UnclosedMetadata", FALSE)
           ELSE IF ~metadata.ok THEN PartsErr("MetadataError", TRUE)
           ELSE PartsOk(Some(metadata.val),
                        Join(SubSeq(rest, n + 2, Len(rest)), <<NL>>), TRUE)))))

\* parts_of with the body of a note without frontmatter rebuilt from its
\* lines instead of returned as read.
parts_of_RejoinedBody(content) ==
  Let(Lines(content), LAMBDA lines :
    IF lines = <<>> THEN PartsOk(None, <<>>, FALSE)
    ELSE IF lines[1] # Delim THEN PartsOk(None, Join(lines, <<NL>>), FALSE)
    ELSE Let(Tail(lines), LAMBDA rest :
         Let(TakeWhileNotDelim(rest), LAMBDA n :
         Let(from_str(Join(SubSeq(rest, 1, n), <<NL>>)), LAMBDA metadata :
           IF ~metadata.ok THEN PartsErr("MetadataError", TRUE)
           ELSE IF n = Len(rest) THEN PartsErr("UnclosedMetadata", TRUE)
           ELSE PartsOk(Some(metadata.val),
                        Join(SubSeq(rest, n + 2, Len(rest)), <<NL>>), TRUE)))))

\* NoteReference::parts on the content read: the first line, the lines
\* taken up to the closing delimiter and parsed, the delimiter, the rest.
\* codec tells whether the codec was invoked.
parts_of(content) ==
  Let(Lines(content), LAMBDA lines :
    IF lines = <<>> THEN PartsOk(None, <<>>, FALSE)
    ELSE IF lines[1] # Delim THEN PartsOk(None, content, FALSE)
    ELSE Let(Tail(lines), LAMBDA rest :
         Let(TakeWhileNotDelim(rest), LAMBDA n :
         Let(from_str(Join(SubSeq(rest, 1, n), <<NL>>)), LAMBDA metadata :
           IF ~metadata.ok THEN PartsErr("MetadataError", TRUE)
           ELSE IF n = Len(rest) THEN PartsErr("UnclosedMetadata", TRUE)
           ELSE PartsOk(Some(metadata.val),
                        Join(SubSeq(rest, n + 2, Len(rest)), <<NL>>), TRUE)))))

\* NoteReference::parts.
parts(f, p) ==
  Let(read_to_string(f, p), LAMBDA content :
    IF ~content.ok THEN PartsErr("IO", FALSE) ELSE parts_of(content.val))

\* NoteReference::metadata.
metadata(f, p) ==
  Let(parts(f, p), LAMBDA r :
    IF r.kind # "Ok" THEN [ok |-> FALSE, err |-> r.kind, val |-> <<>>]
    ELSE IF ~r.meta.some THEN [ok |-> FALSE, err |-> "MissingMetadata", val |-> <<>>]
    ELSE [ok |-> TRUE, err |-> "", val |-> r.meta.val])

----------------------------------------------------------------------------
(* Strategies *)

Branded(bk) == [variant |-> "Branded", brand_key |-> bk, type_key |-> "", note_type |-> "", id_key |-> ""]
TypeAndKey(tk, nt, ik) == [variant |-> "TypeAndKey", brand_key |-> "", type_key |-> tk, note_type |-> nt, id_key |-> ik]

Found(k, p) == Some([key |-> k, note |-> p])

\* The conversion with a failure replaced by the key type's default, 0.
Converted_OrDefault(value, p) ==
  Let(from_value(value), LAMBDA k : IF ~k.some THEN Found(0, p) ELSE Found(k.val, p))

\* from_value(value.clone()).ok()? and the pair returned.
Converted(value, p) ==
  Let(from_value(value), LAMBDA k : IF ~k.some THEN None ELSE Found(k.val, p))

\* <Branded as Strategy<K>>::extract.
Branded_extract(f, s, p) ==
  Let(metadata(f, p), LAMBDA yaml :
    IF ~yaml.ok THEN None
    ELSE Let(Get(yaml.val, s.brand_key), LAMBDA brand :
           IF ~brand.some THEN None ELSE Converted(brand.val, p)))

\* TypeAndKey::extract without the comparison of the discriminator.
TypeAndKey_extract_AnyType(f, s, p) ==
  Let(metadata(f, p), LAMBDA yaml :
    IF ~yaml.ok THEN None
    ELSE Let(Get(yaml.val, s.id_key), LAMBDA id :
           IF ~id.some THEN None ELSE Converted(id.val, p)))

\* <TypeAndKey as Strategy<K>>::extract.
TypeAndKey_extract(f, s, p) ==
  Let(metadata(f, p), LAMBDA yaml :
    IF ~yaml.ok THEN None
    ELSE Let(Get(yaml.val, s.type_key), LAMBDA tv :
           IF ~tv.some THEN None
           ELSE Let(as_str(tv.val), LAMBDA note_type :
                  IF ~note_type.some THEN None
                  ELSE IF note_type.val # s.note_type THEN None
                  ELSE Let(Get(yaml.val, s.id_key), LAMBDA id :
                         IF ~id.some THEN None ELSE Converted(id.val, p)))))

\* Strategy::extract, by variant.
extract(f, s, p) ==
  IF s.variant = "Branded" THEN Branded_extract(f, s, p) ELSE TypeAndKey_extract(f, s, p)

----------------------------------------------------------------------------
(* Vault::notes and find_by *)

\* utils::is_hidden, on the entry's file name.
is_hidden(name) == name # <<>> /\ name[1] = "."

\* Path::extension: what follows the last dot of the file name, when the
\* dot is not the name's first character.
Extension(name) ==
  IF \E i \in 2..Len(name) : name[i] = "."
  THEN Let(CHOOSE i \in 2..Len(name) :
             name[i] = "." /\ \A j \in (i + 1)..Len(name) : name[j] # ".",
           LAMBDA i : Some(SubSeq(name, i + 1, Len(name))))
  ELSE None

\* utils::is_markdown.
is_markdown(name) == Extension(name) = Some(<<"m", "d">>)

\* The entries of directory p.
Children(f, p) ==
  {q \in DOMAIN f.files \cup f.dirs : Len(q) = Len(p) + 1 /\ SubSeq(q, 1, Len(p)) = p}

\* All the orders in which a directory's entries can be read.
Orderings(S) ==
  {o \in [1..Cardinality(S) -> S] : \A i, j \in 1..Cardinality(S) : o[i] = o[j] => i = j}

RECURSIVE Walk(_, _)
\* WalkDir with filter_entry(|e| !is_hidden(e)), as its stack of entries
\* still to visit: every order of enumeration it can produce.  A hidden
\* entry is skipped with all below it; a directory is yielded, then its
\* entries are visited, in the order the directory is read, before the
\* rest of the stack.
Walk(f, stack) ==
  IF stack = <<>> THEN {<<>>}
  ELSE Let(Head(stack), LAMBDA p :
         IF is_hidden(FileName(p)) THEN Walk(f, Tail(stack))
         ELSE IF p \in f.dirs
              THEN UNION {{<<p>> \o w : w \in Walk(f, o \o Tail(stack))} :
                            o \in Orderings(Children(f, p))}
              ELSE {<<p>> \o w : w \in Walk(f, Tail(stack))})

\* Vault::notes: the possible enumerations of the vault at root.  A root
\* that does not exist yields only an error, which is dropped.
notes(f, root) ==
  IF root \notin DOMAIN f.files \cup f.dirs THEN {<<>>}
  ELSE {SelectSeq(w, LAMBDA p : ~is_hidden(FileName(p)) /\ is_markdown(FileName(p))) :
          w \in Walk(f, <<root>>)}

\* HashMap::insert.
Insert(m, k, v) == [x \in DOMAIN m \cup {k} |-> IF x = k THEN v ELSE m[x]]

RECURSIVE Collect_FirstWins(_)
\* collect with an entry kept once it is there, instead of overwritten.
Collect_FirstWins(pairs) ==
  IF pairs = <<>> THEN <<>>
  ELSE Let(Collect_FirstWins(SubSeq(pairs, 1, Len(pairs) - 1)),
           LAMBDA m : IF pairs[Len(pairs)].key \in DOMAIN m THEN m
                      ELSE Insert(m, pairs[Len(pairs)].key, pairs[Len(pairs)].note))

RECURSIVE Collect(_)
\* collect::<HashMap<_, _>>() of the pairs: each inserted in order.
Collect(pairs) ==
  IF pairs = <<>> THEN <<>>
  ELSE Let(Collect(SubSeq(pairs, 1, Len(pairs) - 1)),
           LAMBDA m : Insert(m, pairs[Len(pairs)].key, pairs[Len(pairs)].note))

\* find_by over one enumeration of the vault: extract on every note, the
\* matches collected.
find_by(f, enum, s) ==
  Let(SelectSeq([i \in 1..Len(enum) |-> extract(f, s, enum[i])], LAMBDA e : e.some),
      LAMBDA hits : Let([i \in 1..Len(hits) |-> hits[i].val], LAMBDA pairs : Collect(pairs)))

----------------------------------------------------------------------------
(* JoinedNote::write *)

WriteRet(k, o, t) == [kind |-> k, outcome |-> o, target |-> t]

\* The file JoinedNote::write formats, without the delimiter after the metadata.
Formatted_NoClose(note) == Delim \o <<NL>> \o to_string(note.metadata) \o note.contents

\* The file JoinedNote::write formats.
Formatted(note) == Delim \o <<NL>> \o to_string(note.metadata) \o Delim \o <<NL>> \o note.contents

\* The second half of write: serialize, then write the file.
write_to(f, note, outcome, path) ==
  IF ~note.ser_ok THEN [ret |-> WriteRet("MetadataError", "", <<>>), fs |-> f]
  ELSE Let(fs_write(f, path, Formatted(note)), LAMBDA w :
         IF ~w.ok THEN [ret |-> WriteRet("IO", "", <<>>), fs |-> f]
         ELSE [ret |-> WriteRet("Ok", outcome, path), fs |-> w.fs])

\* default_path.parent() without the filter on the empty parent.
MeaningfulParent_NoFilter(p) == Parent(p)

\* default_path.parent().filter(|p| *p != Path::new("")).
MeaningfulParent(p) ==
  Let(Parent(p), LAMBDA par : IF par.some /\ par.val # <<>> THEN par ELSE None)

\* write with the outcome decided by whether the target file is there.
write_ByExistence(f, note, existing) ==
  IF existing.some
  THEN write_to(f, note,
                IF existing.val \in DOMAIN f.files THEN "Updated" ELSE "Created",
                existing.val)
  ELSE Let(MeaningfulParent(note.default_path), LAMBDA parent :
         IF ~parent.some THEN [ret |-> WriteRet("MalformedVault", "", <<>>), fs |-> f]
         ELSE Let(create_dir_all(f, parent.val), LAMBDA d :
                IF ~d.ok THEN [ret |-> WriteRet("IO", "", <<>>), fs |-> f]
                ELSE write_to(d.fs, note, "Created", note.default_path)))

\* JoinedNote::write: the result and the file system after it.
write(f, note, existing) ==
  IF existing.some THEN write_to(f, note, "Updated", existing.val)
  ELSE Let(MeaningfulParent(note.default_path), LAMBDA parent :
         IF ~parent.some THEN [ret |-> WriteRet("MalformedVault", "", <<>>), fs |-> f]
         ELSE Let(create_dir_all(f, parent.val), LAMBDA d :
                IF ~d.ok THEN [ret |-> WriteRet("IO", "", <<>>), fs |-> f]
                ELSE write_to(d.fs, note, "Created", note.default_path)))

----------------------------------------------------------------------------
(* The vault the specifications run on *)

V == <<"V">>
a_md == <<"a", ".", "m", "d">>
b_md == <<"b", ".", "m", "d">>
people == <<"p", "e", "o", "p", "l", "e">>
seven_md == <<"7", ".", "m", "d">>
dot_h == <<".", "h">>

VaultRoot == <<V>>
P_a == <<V, a_md>>
P_b == <<V, b_md>>
P_people == <<V, people>>
P_7 == <<V, people, seven_md>>
P_ha == <<V, dot_h, a_md>>
P_bare == <<seven_md>>

\* Frontmatter with metadata block m and body b, as a file's text.
Front(m, b) == Delim \o <<NL>> \o m \o <<NL>> \o Delim \o <<NL>> \o b

E_i7 == <<"i", ":", " ", "7">>
E_i8 == <<"i", ":", " ", "8">>
E_ip == <<"i", ":", " ", "p">>
E_tp == <<"t", ":", " ", "p">>
E_tq == <<"t", ":", " ", "q">>
E_t7 == <<"t", ":", " ", "7">>

T_id7 == Front(E_i7, <<"x">>)
T_plain == <<"x">>
T_unclosed == Delim \o <<NL>> \o E_i7
T_bad == Front(<<"x">>, <<>>)
T_p8 == Front(E_tp \o <<NL>> \o E_i8, <<>>)
T_p7 == Front(E_tp \o <<NL>> \o E_i7, <<>>)
T_q7 == Front(E_tq \o <<NL>> \o E_i7, <<>>)
T_t7 == Front(E_t7 \o <<NL>> \o E_i7, <<>>)
T_ip == Front(E_tp \o <<NL>> \o E_ip, <<>>)
T_tonly == Front(E_tp, <<>>)

\* What a slot of the vault can hold: nothing, a directory, or a file.
Absent == [is |-> "absent", text |-> <<>>]
Dir == [is |-> "dir", text |-> <<>>]
File(t) == [is |-> "file", text |-> t]

\* The file system in which each path of dom holds what slot says; the
\* ancestors of what exists are directories.
MkFs(slot) ==
  LET there == {p \in DOMAIN slot : slot[p].is # "absent"}
      fpaths == {p \in there : slot[p].is = "file"}
  IN [files |-> [p \in fpaths |-> slot[p].text],
      dirs |-> {p \in there : slot[p].is = "dir"}
                 \cup UNION {Prefixes(Parent(p).val) : p \in there}]

\* The strategies and the key type's values used.
Strategies == {Branded("i"), TypeAndKey("t", "p", "i")}
Keys == {7, 8}

M_i7 == <<[key |-> "i", value |-> Num(7)]>>
M_p8 == <<[key |-> "t", value |-> Str("p")], [key |-> "i", value |-> Num(8)]>>

JoinedNote(k, dp, m, ok, c) ==
  [note_id |-> k, default_path |-> dp, metadata |-> m, ser_ok |-> ok, contents |-> c]

NoCall == [op |-> "none"]

----------------------------------------------------------------------------
(* SpecParts: NoteReference::parts on every text built from a few pieces *)

MaxPieces == 5

Pieces == {Delim \o <<NL>>, Delim, <<NL>>, <<CR>>, <<"x">>, E_i7 \o <<NL>>}

PieceSeqs == UNION {[1..n -> Pieces] : n \in 0..MaxPieces}

Texts == {Flatten(ps) : ps \in PieceSeqs}

P_note == <<a_md>>

InitParts ==
  /\ \E t \in Texts : fs = [files |-> [p \in {P_note} |-> t], dirs |-> {}]
  /\ pre = fs
  /\ call = NoCall
  /\ ret = None

CallParts ==
  /\ \E p \in DOMAIN fs.files :
       /\ call' = [op |-> "parts", path |-> p]
       /\ ret' = parts(fs, p)
  /\ UNCHANGED <<fs, pre>>

NextParts == CallParts

SpecParts == InitParts /\ [][NextParts]_vars

\* The text of the note the last parts call read.
Content == fs.files[call.path]

\* Text c is "---\n" A "\n---\n" B with A ending at position j.
IsForm(c, j) ==
  /\ j >= 4
  /\ Len(c) >= j + 5
  /\ SubSeq(c, 1, 4) = Delim \o <<NL>>
  /\ SubSeq(c, j + 1, j + 5) = <<NL>> \o Delim \o <<NL>>
FormA(c, j) == SubSeq(c, 5, j)
FormB(c, j) == SubSeq(c, j + 6, Len(c))

NoDelimLine(t) == \A i \in 1..Len(Lines(t)) : Lines(t)[i] # Delim

\* The first line is the delimiter and no later line is.
OpenedNotClosed(c) ==
  LET ls == Lines(c)
  IN ls # <<>> /\ ls[1] = Delim /\ \A i \in 2..Len(ls) : ls[i] # Delim

\* C3: for a file "---\n" A "\n---\n" B where A has no line "---" and A
\* deserializes, parts returns Ok((Some(parse(A)), B)) with the body equal
\* to B exactly, for every B.
C3_BodyIsExactlyB ==
  call.op = "parts" =>
    \A j \in 4..Len(Content) :
      (IsForm(Content, j) /\ NoDelimLine(FormA(Content, j)) /\ from_str(FormA(Content, j)).ok)
        => ret = PartsOk(Some(from_str(FormA(Content, j)).val), FormB(Content, j), TRUE)

\* C4 as claimed: a file whose first line is "---" and that has no later
\* line "---" fails with UnclosedMetadata, whatever the collected block.
C4_AlwaysUnclosed ==
  (call.op = "parts" /\ OpenedNotClosed(Content)) => ret.kind = "UnclosedMetadata"

\* C4 as amended: such a file always fails; with UnclosedMetadata when the
\* codec accepts the collected block, with MetadataError when it rejects it.
C4_UnclosedAfterParse ==
  (call.op = "parts" /\ OpenedNotClosed(Content)) =>
    ret.kind = IF from_str(Join(Tail(Lines(Content)), <<NL>>)).ok
               THEN "UnclosedMetadata" ELSE "MetadataError"

C4_Witness ==
  /\ call.op = "parts"
  /\ OpenedNotClosed(Content)
  /\ Len(Lines(Content)) > 1
  /\ ret.kind = "MetadataError"

\* C5: a file whose first line is not exactly "---" (the empty file
\* included) parses to Ok((None, the whole content)), and the codec is not
\* invoked.
C5_NoFrontmatterWholeContent ==
  (call.op = "parts" /\ (Lines(Content) = <<>> \/ Lines(Content)[1] # Delim)) =>
    ret = PartsOk(None, Content, FALSE)

C5_Witness ==
  /\ call.op = "parts"
  /\ Len(Content) > 4
  /\ SubSeq(Content, 1, 3) = Delim
  /\ Content[Len(Content)] = NL
  /\ Lines(Content)[1] # Delim
  /\ ret = PartsOk(None, Content, FALSE)

----------------------------------------------------------------------------
(* SpecIndex: Strategy::extract and find_by over vaults of every kind of   *)
(* note: with a key, without frontmatter, unclosed, rejected by the codec, *)
(* of another type, a directory named like a note, hidden.                 *)

VaultTexts == {T_id7, T_plain, T_unclosed, T_bad, T_p8, T_p7, T_q7, T_t7, T_ip, T_tonly}

IndexSlots ==
  [{P_a, P_b, P_7, P_ha} -> {Absent, Dir} \cup {File(t) : t \in VaultTexts}]

IndexVaults ==
  {MkFs(sl) : sl \in {sl \in IndexSlots :
     /\ sl[P_b].is # "dir"
     /\ sl[P_7] \in {Absent, File(T_id7), File(T_p7)}
     /\ sl[P_ha] \in {Absent, File(T_id7)}}}

InitIndex ==
  /\ fs \in IndexVaults
  /\ pre = fs
  /\ call = NoCall
  /\ ret = None

CallExtract ==
  /\ \E s \in Strategies, p \in {P_a, P_b, P_7, P_ha} :
       /\ call' = [op |-> "extract", strategy |-> s, path |-> p]
       /\ ret' = extract(fs, s, p)
  /\ UNCHANGED <<fs, pre>>

CallFindBy ==
  /\ \E s \in Strategies, e \in notes(fs, VaultRoot) :
       /\ call' = [op |-> "find_by", strategy |-> s, enum |-> e]
       /\ ret' = find_by(fs, e, s)
  /\ UNCHANGED <<fs, pre>>

NextIndex == CallExtract \/ CallFindBy

SpecIndex == InitIndex /\ [][NextIndex]_vars

\* The text of the note the last extract call was given, when it is a file.
IsFile(p) == p \in DOMAIN fs.files

\* C6: extract returns None, never an error, on a note that is missing or
\* unreadable, has no frontmatter, has unclosed frontmatter, has
\* frontmatter the codec rejects, lacks the field, or whose field does not
\* convert to the key type; it returns Some only when
\* NoteReference::metadata succeeds on that note.  For both strategies.
C6_ExtractSwallows ==
  call.op = "extract" =>
    LET p == call.path
        s == call.strategy
        r == parts(fs, p)
        field == IF s.variant = "Branded" THEN s.brand_key ELSE s.id_key
    IN /\ ret = None \/ (ret.some /\ ret.val.note = p /\ ret.val.key \in Keys)
       /\ ~IsFile(p) => ret = None
       /\ r.kind \in {"IO", "MetadataError", "UnclosedMetadata"} => ret = None
       /\ (r.kind = "Ok" /\ ~r.meta.some) => ret = None
       /\ (r.kind = "Ok" /\ r.meta.some /\ ~Get(r.meta.val, field).some) => ret = None
       /\ (r.kind = "Ok" /\ r.meta.some /\ Get(r.meta.val, field).some
             /\ Get(r.meta.val, field).val.kind # "num") => ret = None
       /\ (IsFile(p) /\ fs.files[p] \in {T_plain, T_unclosed, T_bad, T_ip, T_tonly})
            => ret = None
       /\ ret.some => metadata(fs, p).ok

C6_Witness ==
  /\ call.op = "extract"
  /\ IsFile(call.path)
  /\ fs.files[call.path] = T_ip
  /\ call.strategy.variant = "Branded"
  /\ ret = None

\* C7: TypeAndKey::extract returns no key when the discriminator field is
\* absent, is not text, or differs from note_type, even if the id field is
\* there and converts; when the discriminator equals note_type, it returns
\* the id field converted, with the same note.
C7_TypeAndKeyDiscriminates ==
  (call.op = "extract" /\ call.strategy.variant = "TypeAndKey") =>
    LET p == call.path
        s == call.strategy
        m == metadata(fs, p)
    IN /\ (~m.ok \/ Get(m.val, s.type_key) # Some(Str(s.note_type))) => ret = None
       /\ (m.ok /\ Get(m.val, s.type_key) = Some(Str(s.note_type))
             /\ Get(m.val, s.id_key).some /\ Get(m.val, s.id_key).val.kind = "num")
            => ret = Found(Get(m.val, s.id_key).val.num, p)
       /\ (IsFile(p) /\ fs.files[p] \in {T_id7, T_q7, T_t7}) => ret = None
       /\ (IsFile(p) /\ fs.files[p] = T_p8) => ret = Found(8, p)

C7_Witness ==
  /\ call.op = "extract"
  /\ call.strategy = TypeAndKey("t", "p", "i")
  /\ IsFile(call.path)
  /\ fs.files[call.path] = T_q7
  /\ ret = None

\* What extract yields on the i-th note of the last find_by's enumeration.
Hit(i) == extract(fs, call.strategy, call.enum[i])

\* C8: find_by's mapping has exactly the keys extract yields over the
\* notes Vault::notes enumerates; a note on which extract returns None
\* adds nothing; a key several notes yield maps to the last of them in
\* enumeration order.
C8_FindByLastWins ==
  call.op = "find_by" =>
    LET n == Len(call.enum)
    IN /\ call.enum \in notes(fs, VaultRoot)
       /\ DOMAIN ret = {Hit(i).val.key : i \in {i \in 1..n : Hit(i).some}}
       /\ \A k \in DOMAIN ret :
            \E i \in 1..n :
              /\ Hit(i) = Found(k, ret[k])
              /\ \A j \in (i + 1)..n : Hit(j) # None => Hit(j).val.key # k

C8_Witness ==
  /\ call.op = "find_by"
  /\ \E i, j, l \in 1..Len(call.enum) :
       /\ i < j
       /\ Hit(i).some /\ Hit(j).some /\ ~Hit(l).some
       /\ Hit(i).val.key = Hit(j).val.key
       /\ ret[Hit(i).val.key] = call.enum[j]

----------------------------------------------------------------------------
(* Spec: JoinedNote::write, with and without an existing path *)

WriteVaults ==
  {MkFs(sl) : sl \in {sl \in [{P_a, P_people, P_7} -> {Absent, File(T_id7), File(T_plain)}] :
     sl[P_7].is = "file" => sl[P_people].is = "absent"}}
  \cup {[files |-> <<>>, dirs |-> {VaultRoot}]}

WriteNotes ==
  {JoinedNote(7, dp, m, ok, c) :
     dp \in {P_7, P_a, P_bare, <<>>}, m \in {M_i7, M_p8}, ok \in BOOLEAN,
     c \in {<<"x">>, <<"x", NL>>}}

Init ==
  /\ fs \in WriteVaults
  /\ pre = fs
  /\ call = NoCall
  /\ ret = None

Write ==
  \E note \in WriteNotes, existing \in {None, Some(P_a), Some(P_b), Some(P_7)} :
    \E w \in {write(fs, note, existing)} :
       /\ call' = [op |-> "write", note |-> note, existing |-> existing]
       /\ pre' = fs
       /\ fs' = w.fs
       /\ ret' = w.ret

Next == Write

Spec == Init /\ [][Next]_vars

\* Between pre and fs, no file other than p changed, appeared or vanished.
OnlyFileWritten(p) ==
  /\ DOMAIN fs.files = DOMAIN pre.files \cup {p}
  /\ \A q \in DOMAIN pre.files \ {p} : fs.files[q] = pre.files[q]

\* C1: write(Some(p)) that returns Ok returns Updated and writes only p
\* (no directory is created, default_path is not written); write(None)
\* that returns Ok returns Created and writes only default_path; whether
\* the target existed does not matter.
C1_OutcomeByExisting ==
  (call.op = "write" /\ ret.kind = "Ok") =>
    IF call.existing.some
    THEN /\ ret.outcome = "Updated"
         /\ ret.target = call.existing.val
         /\ OnlyFileWritten(call.existing.val)
         /\ fs.dirs = pre.dirs
    ELSE /\ ret.outcome = "Created"
         /\ ret.target = call.note.default_path
         /\ OnlyFileWritten(call.note.default_path)

C1_Witness ==
  /\ call.op = "write"
  /\ call.existing = Some(P_b)
  /\ call.note.default_path = P_7
  /\ P_b \notin DOMAIN pre.files
  /\ P_people \notin pre.dirs
  /\ ret = WriteRet("Ok", "Updated", P_b)

\* C2: write(None) on a default_path without a parent segment (a bare
\* file name, or the empty path) fails with MalformedVault and leaves the
\* file system as it was, whatever the metadata and contents.
C2_NoParentNoMutation ==
  (call.op = "write" /\ ~call.existing.some /\ Len(call.note.default_path) <= 1) =>
    (ret.kind = "MalformedVault" /\ fs = pre)

C2_Witness ==
  /\ call.op = "write"
  /\ call.existing = None
  /\ call.note.default_path = P_bare
  /\ call.note.ser_ok
  /\ ret.kind = "MalformedVault"
  /\ fs = pre

\* C9: after a successful write the target holds the delimiter line, the
\* serialized metadata, the delimiter line, then the contents, and nothing
\* of what it held before; writing the same note again to the same path
\* leaves the same file system.
C9_FileFullyReplaced ==
  (call.op = "write" /\ ret.kind = "Ok") =>
    /\ fs.files[ret.target] =
         Delim \o <<NL>> \o to_string(call.note.metadata) \o Delim \o <<NL>>
           \o call.note.contents
    /\ write(fs, call.note, call.existing) = [ret |-> ret, fs |-> fs]

C9_Witness ==
  /\ call.op = "write"
  /\ ret.kind = "Ok"
  /\ ret.target \in DOMAIN pre.files
  /\ pre.files[ret.target] = T_id7
  /\ call.note.metadata = M_p8
  /\ fs.files[ret.target] # pre.files[ret.target]

----------------------------------------------------------------------------
(* SpecJoin: rounds of find_by, look up the key, write *)

MaxRounds == 3

\* The notes of the vault that yield key k under strategy s.
Yielding(f, s, k) ==
  {p \in DOMAIN f.files \cup f.dirs :
     /\ \E e \in notes(f, VaultRoot) : \E i \in 1..Len(e) : e[i] = p
     /\ extract(f, s, p) = Found(k, p)}

JoinVaults ==
  {MkFs(sl) : sl \in {sl \in [{P_a, P_b, P_people, P_7, P_ha} ->
                               {Absent, Dir, File(T_id7), File(T_plain), File(T_p8)}] :
     /\ sl[P_b] \in {Absent, File(T_plain)}
     /\ sl[P_7].is # "dir"
     /\ sl[P_7].is = "file" => sl[P_people].is = "absent"
     /\ sl[P_ha] \in {Absent, File(T_id7)}}}

\* The notes joined: the metadata maps the brand field "i" to the key.
JoinMetadata(k) ==
  {<<[key |-> "i", value |-> Num(k)]>>,
   <<[key |-> "t", value |-> Str("p")], [key |-> "i", value |-> Num(k)]>>}

JoinNotes ==
  UNION {{JoinedNote(k, dp, m, TRUE, c) :
            dp \in {P_7, P_a, P_b}, m \in JoinMetadata(k), c \in {<<"x">>, Delim \o <<NL>>}} :
           k \in Keys}

\* The last round's key.
JoinKey == call.note.note_id

InitJoin ==
  /\ \E n \in JoinNotes :
       /\ call = [op |-> "start", note |-> n, round |-> 0, succ |-> 0, existing |-> None]
       /\ fs \in {f \in JoinVaults : Yielding(f, Branded("i"), n.note_id) = {}}
  /\ pre = fs
  /\ ret = None

\* One round of the caller's join: index the vault, look the key up, write
\* to the path found or to the default path.
JoinRound ==
  /\ call.round < MaxRounds
  /\ \E e \in notes(fs, VaultRoot) :
       \E index \in {find_by(fs, e, Branded("i"))} :
         \E existing \in {IF JoinKey \in DOMAIN index THEN Some(index[JoinKey]) ELSE None} :
           \E w \in {write(fs, call.note, existing)} :
             /\ call' = [op |-> "join", note |-> call.note, round |-> call.round + 1,
                         succ |-> call.succ + (IF w.ret.kind = "Ok" THEN 1 ELSE 0),
                         existing |-> existing]
             /\ pre' = fs
             /\ fs' = w.fs
             /\ ret' = w.ret

NextJoin == JoinRound

SpecJoin == InitJoin /\ [][NextJoin]_vars

====
